---- MODULE Spec2Model ----
(***************************************************************************
 A model of the Huell Howser archive scraper: the feed-pagination crawl
 (crawlCategory), the dual-strategy video extractor (getPageVideos,
 getVideosFromIframe, getVideosFromJWPlayer), the episode renamer
 (renameEpisode) and the two invocation modes of the script.

 JavaScript strings that the code takes apart (titles, names, file names)
 are sequences of one-character strings; the two non-ASCII characters the
 code handles are the tokens "ndash", "mdash" and "rsquo".  Optional values
 (undefined properties) are sequences of length 0 or 1.
 ***************************************************************************)
EXTENDS Integers, Sequences, FiniteSets, TLC

VARIABLES
    pc,          \* position of the script: see the actions below
    mode,        \* "show" (--show) or "single" (--single)
    show,        \* params.show: the key of SHOWS being crawled
    CACHE,       \* the in-memory CACHE: [pages, tvdb]
    disk,        \* cache.json: <<>> is the empty file, <<c>> holds cache c
    fuzzyset,    \* SHOWS[show].fuzzyset: <<>> or <<names>> (per process)
    pageNumber,  \* crawlCategory's pageNumber
    links,       \* the links of the current feed page still to be processed
    videos,      \* crawlCategory's videos: references (page URLs) into CACHE.pages
    totalSize,   \* crawlCategory's totalSize
    console,     \* what the run reported: [eof, errors, unhandled, spawned]
    manifest,    \* download-<show>.sh: <<>> not written, <<commands>> written
    fetched,     \* history: feed page numbers fetched in this run
    notFoundAt,  \* history: <<page number, has links>> of each feed page of
                 \* the run whose title said 'Page not found'
    lastFeed,    \* history: the last feed page fetched, [page, kind]
    extracted,   \* history: <<page number, link>> of each getPageVideos call of the run
    lastCall,    \* history: the last getPageVideos call of the run
    everResolved,\* history: the URLs some getPageVideos call has resolved
    flushed,     \* history: cache.json was written by this run
    runs,        \* number of process starts so far
    arg,         \* the input of the call (SpecExtract, SpecRename)
    ret          \* its result

vars == <<pc, mode, show, CACHE, disk, fuzzyset, pageNumber, links, videos,
          totalSize, console, manifest, fetched, notFoundAt, lastFeed, extracted,
          lastCall, everResolved, flushed, runs, arg, ret>>

(***************************************************************************)
(* Bounds of the model.                                                    *)
(***************************************************************************)
MaxPages == 2
MaxRuns == 2
MaxSources == 3
MaxIframeSources == 2

(***************************************************************************)
(* Generic helpers.                                                        *)
(***************************************************************************)
SeqsUpTo(S, n) == UNION {[1..k -> S] : k \in 0..n}

Reverse(s) == [i \in 1..Len(s) |-> s[Len(s) + 1 - i]]

EmptyMap == [x \in {} |-> 0]

Put(f, k, v) == [x \in DOMAIN f \cup {k} |-> IF x = k THEN v ELSE f[x]]

(***************************************************************************)
(* getFileSize: a HEAD request; no content-length header gives 0.          *)
(* A probe response is [status, header]: header is <<>> (no content-length)*)
(* or <<digits>>.                                                          *)
(***************************************************************************)
DigitValue(c) ==
    CASE c = "0" -> 0 [] c = "1" -> 1 [] c = "2" -> 2 [] c = "3" -> 3
      [] c = "4" -> 4 [] c = "5" -> 5 [] c = "6" -> 6 [] c = "7" -> 7
      [] c = "8" -> 8 [] c = "9" -> 9

RECURSIVE ParseInt(_)
ParseInt(digits) ==
    IF digits = <<>> THEN 0
    ELSE 10 * ParseInt(SubSeq(digits, 1, Len(digits) - 1))
         + DigitValue(digits[Len(digits)])

getFileSize(probe) ==
    IF probe.status # "ok" THEN [ok |-> FALSE, size |-> 0]
    ELSE IF probe.header = <<>> THEN [ok |-> TRUE, size |-> 0]
    ELSE [ok |-> TRUE, size |-> ParseInt(probe.header[1])]

(***************************************************************************)
(* What the network returns to one getPageVideos call:                     *)
(*   page   the post page: [status, title, iframes, scripts], the numbers  *)
(*          of elements matching iframe[src^="https://vhost"] and          *)
(*          script[src^="//content.jwplatform.com/players/"];              *)
(*   iframe the iframe document: [status, sources, tracks];                *)
(*   jw     the player script: [status, config], config <<>> when the      *)
(*          jwConfig literal is not found, else <<[playlist]>>, playlist   *)
(*          <<>> when the key is absent, else <<[falsy, entries]>>;        *)
(*   probe  the answer to the HEAD requests of the call.                   *)
(***************************************************************************)
IframeSrc == "https://vhost/embed"
ScriptSrc == "//content.jwplatform.com/players/p.js"

Failure(err, requests) ==
    [ok |-> FALSE, err |-> err, page |-> <<>>, requests |-> requests, probed |-> <<>>]

NewPage(title, pageUrl, sourceUrl) ==
    [pageUrl |-> pageUrl, sourceUrl |-> sourceUrl, title |-> title,
     videos |-> EmptyMap, subtitles |-> <<>>, show |-> <<>>, renamed |-> <<>>]

(***************************************************************************)
(* getVideosFromJWPlayer: the loop over the reversed source list.  i is    *)
(* the position in the reversed list, probed the positions size-probed.    *)
(***************************************************************************)
RECURSIVE JWLoopNoBreak(_, _, _, _, _)
JWLoopNoBreak(sources, i, vids, probed, probe) ==
    IF i > Len(sources) THEN [ok |-> TRUE, videos |-> vids, probed |-> probed]
    ELSE IF sources[i].type = "hls"
         THEN JWLoopNoBreak(sources, i + 1, vids, probed, probe)
         ELSE LET size == getFileSize(probe)
                  video == [src |-> "https:" \o sources[i].file,
                            label |-> IF sources[i].width = 720 THEN "HD" ELSE "SD",
                            size |-> size.size]
              IN  IF ~size.ok
                  THEN [ok |-> FALSE, videos |-> vids, probed |-> Append(probed, i)]
                  ELSE IF sources[i].width = 720
                       THEN JWLoopNoBreak(sources, i + 1, Put(vids, "HD", video),
                                          Append(probed, i), probe)
                  ELSE IF sources[i].width = 480
                       THEN JWLoopNoBreak(sources, i + 1, Put(vids, "SD", video),
                                          Append(probed, i), probe)
                  ELSE JWLoopNoBreak(sources, i + 1, vids, Append(probed, i), probe)

RECURSIVE JWLoop(_, _, _, _, _)
JWLoop(sources, i, vids, probed, probe) ==
    IF i > Len(sources) THEN [ok |-> TRUE, videos |-> vids, probed |-> probed]
    ELSE IF sources[i].type = "hls"
         THEN JWLoop(sources, i + 1, vids, probed, probe)
         ELSE LET size == getFileSize(probe)
                  video == [src |-> "https:" \o sources[i].file,
                            label |-> IF sources[i].width = 720 THEN "HD" ELSE "SD",
                            size |-> size.size]
              IN  IF ~size.ok
                  THEN [ok |-> FALSE, videos |-> vids, probed |-> Append(probed, i)]
                  ELSE IF sources[i].width = 720
                       THEN JWLoop(sources, i + 1, Put(vids, "HD", video),
                                   Append(probed, i), probe)
                  ELSE IF sources[i].width = 480
                       THEN [ok |-> TRUE, videos |-> Put(vids, "SD", video),
                             probed |-> Append(probed, i)]
                  ELSE JWLoop(sources, i + 1, vids, Append(probed, i), probe)

getVideosFromJWPlayer(title, pageUrl, sourceUrl, net) ==
    IF net.jw.status # "ok" THEN Failure("RequestError", 1)
    ELSE IF net.jw.config = <<>> THEN Failure("TypeError", 1)
    ELSE LET config == net.jw.config[1] IN
         IF config.playlist = <<>> THEN Failure("No playlist found!", 1)
         ELSE IF config.playlist[1].falsy THEN Failure("Playlist empty!", 1)
         ELSE IF config.playlist[1].entries = <<>> THEN Failure("TypeError", 1)
         ELSE LET playlist == config.playlist[1].entries[1]
                  scan == JWLoop(Reverse(playlist.sources), 1, EmptyMap, <<>>, net.probe)
              IN  IF ~scan.ok
                  THEN [Failure("RequestError", 1 + Len(scan.probed))
                            EXCEPT !.probed = scan.probed]
                  ELSE [ok |-> TRUE, err |-> "",
                        page |-> <<[NewPage(title, pageUrl, sourceUrl)
                                       EXCEPT !.videos = scan.videos]>>,
                        requests |-> 1 + Len(scan.probed),
                        probed |-> scan.probed]

(***************************************************************************)
(* getIframeVideosOfQuality and getVideosFromIframe.  r is the result so   *)
(* far; a failed step is passed through (the exception propagates).        *)
(***************************************************************************)
getIframeVideosOfQuality(videoAttributes, r, quality, probe) ==
    LET videosOfQuality == SelectSeq(videoAttributes, LAMBDA v : v.label = quality)
    IN  IF ~r.ok THEN r
        ELSE IF Len(videosOfQuality) > 1
             THEN Failure("More than one " \o quality \o " video found", r.requests)
        ELSE IF Len(videosOfQuality) = 1
             THEN LET size == getFileSize(probe) IN
                  IF ~size.ok THEN Failure("RequestError", r.requests + 1)
                  ELSE [r EXCEPT
                          !.page[1].videos =
                              Put(@, quality, [src |-> videosOfQuality[1].src,
                                               label |-> quality,
                                               size |-> size.size]),
                          !.requests = @ + 1]
        ELSE r

getVideosFromIframe(title, pageUrl, sourceUrl, net) ==
    IF net.iframe.status # "ok" THEN Failure("RequestError", 1)
    ELSE LET videoAttributes == net.iframe.sources
             subtitles == net.iframe.tracks
             page == [NewPage(title, pageUrl, sourceUrl)
                         EXCEPT !.subtitles = IF subtitles = <<>> THEN <<>>
                                              ELSE <<subtitles[1]>>]
             r0 == [ok |-> TRUE, err |-> "", page |-> <<page>>, requests |-> 1,
                    probed |-> <<>>]
             r1 == getIframeVideosOfQuality(videoAttributes, r0, "SD", net.probe)
         IN  getIframeVideosOfQuality(videoAttributes, r1, "HD", net.probe)

(***************************************************************************)
(* getPageVideos: pages is CACHE.pages.  The result carries the new        *)
(* CACHE.pages, the number of network requests made and whether the cache  *)
(* answered.                                                               *)
(***************************************************************************)
Extraction(r, pageUrl, pages) ==
    [ok |-> r.ok, err |-> r.err, page |-> r.page,
     pages |-> IF r.ok THEN Put(pages, pageUrl, r.page[1]) ELSE pages,
     requests |-> 1 + r.requests, hit |-> FALSE, probed |-> r.probed]

getPageVideosAnyIframe(pageUrl, pages, net) ==
    IF net.page.status # "ok"
    THEN Extraction(Failure("RequestError", 0), pageUrl, pages)
    ELSE IF net.page.iframes >= 1
         THEN Extraction(getVideosFromIframe(net.page.title, pageUrl, IframeSrc, net),
                         pageUrl, pages)
    ELSE IF net.page.scripts = 1
         THEN Extraction(getVideosFromJWPlayer(net.page.title, pageUrl,
                                               "https:" \o ScriptSrc, net),
                         pageUrl, pages)
    ELSE IF net.page.scripts > 1
         THEN Extraction(Failure("Found more than one JW Player <video> tag!", 0),
                         pageUrl, pages)
    ELSE Extraction(Failure("Couldn't find a JW Player <video> tag!", 0),
                    pageUrl, pages)

getPageVideosNoCache(pageUrl, pages, net) ==
    IF net.page.status # "ok"
    THEN Extraction(Failure("RequestError", 0), pageUrl, pages)
    ELSE IF net.page.iframes = 1
         THEN Extraction(getVideosFromIframe(net.page.title, pageUrl, IframeSrc, net),
                         pageUrl, pages)
    ELSE IF net.page.iframes > 1
         THEN Extraction(Failure("Found more than one matching iframe", 0),
                         pageUrl, pages)
    ELSE IF net.page.scripts = 1
         THEN Extraction(getVideosFromJWPlayer(net.page.title, pageUrl,
                                               "https:" \o ScriptSrc, net),
                         pageUrl, pages)
    ELSE IF net.page.scripts > 1
         THEN Extraction(Failure("Found more than one JW Player <video> tag!", 0),
                         pageUrl, pages)
    ELSE Extraction(Failure("Couldn't find a JW Player <video> tag!", 0),
                    pageUrl, pages)

getPageVideosAlwaysMiss(pageUrl, pages, net) ==
    getPageVideosNoCache(pageUrl, pages, net)

getPageVideos(pageUrl, pages, net) ==
    IF pageUrl \in DOMAIN pages
    THEN [ok |-> TRUE, err |-> "", page |-> <<pages[pageUrl]>>, pages |-> pages,
          requests |-> 0, hit |-> TRUE, probed |-> <<>>]
    ELSE getPageVideosNoCache(pageUrl, pages, net)

(***************************************************************************)
(* Strings as sequences of characters.                                     *)
(***************************************************************************)
\* "videos/"
Str_videos ==
    <<"v", "i", "d", "e", "o", "s", "/">>

\* "/"
Str_slash ==
    <<"/">>

\* ".mp4"
Str_mp4 ==
    <<".", "m", "p", "4">>

\* "and"
Str_and ==
    <<"a", "n", "d">>

\* "californias-gold"
Key_californias_gold ==
    <<"c", "a", "l", "i", "f", "o", "r", "n", "i", "a", "s", "-", "g", "o",
      "l", "d">>

\* "downtown"
Key_downtown ==
    <<"d", "o", "w", "n", "t", "o", "w", "n">>

\* "California's Gold"
Name_CaliforniasGold ==
    <<"C", "a", "l", "i", "f", "o", "r", "n", "i", "a", "'", "s", " ", "G",
      "o", "l", "d">>

\* "Downtown"
Name_Downtown ==
    <<"D", "o", "w", "n", "t", "o", "w", "n">>

\* "Old Faithful"
Ep_OldFaithful ==
    <<"O", "l", "d", " ", "F", "a", "i", "t", "h", "f", "u", "l">>

\* "Old Town"
Ep_OldTown ==
    <<"O", "l", "d", " ", "T", "o", "w", "n">>

\* "Bodie & Mono"
Ep_Bodie ==
    <<"B", "o", "d", "i", "e", " ", "&", " ", "M", "o", "n", "o">>

\* "Old Faithful (ndash) California(rsquo)s Gold (112)"
Title_OldFaithful ==
    <<"O", "l", "d", " ", "F", "a", "i", "t", "h", "f", "u", "l", " ",
      "ndash", " ", "C", "a", "l", "i", "f", "o", "r", "n", "i", "a",
      "rsquo", "s", " ", "G", "o", "l", "d", " ", "(", "1", "1", "2", ")">>

\* "Old - California(rsquo)s Gold"
Title_Old ==
    <<"O", "l", "d", " ", "-", " ", "C", "a", "l", "i", "f", "o", "r", "n",
      "i", "a", "rsquo", "s", " ", "G", "o", "l", "d">>

\* "bodie"
Title_Bodie ==
    <<"b", "o", "d", "i", "e">>

\* "Downtown (mdash) Downtown"
Title_Downtown ==
    <<"D", "o", "w", "n", "t", "o", "w", "n", " ", "mdash", " ", "D", "o",
      "w", "n", "t", "o", "w", "n">>

Digits == {"0", "1", "2", "3", "4", "5", "6", "7", "8", "9"}

Min(S) == CHOOSE x \in S : \A y \in S : x <= y

Max(S) == CHOOSE x \in S : \A y \in S : x >= y

\* s.replace(/c/g, r): every occurrence of the character c becomes r.
RECURSIVE ReplaceAll(_, _, _)
ReplaceAll(s, c, r) ==
    IF \A i \in 1..Len(s) : s[i] # c THEN s
    ELSE SubSeq(s, 1, Min({i \in 1..Len(s) : s[i] = c}) - 1) \o r
         \o ReplaceAll(SubSeq(s, Min({i \in 1..Len(s) : s[i] = c}) + 1, Len(s)), c, r)

StartsWith(s, p) == Len(p) <= Len(s) /\ SubSeq(s, 1, Len(p)) = p

RECURSIVE DigitRun(_, _)
DigitRun(s, j) ==
    IF j <= Len(s) /\ s[j] \in Digits THEN 1 + DigitRun(s, j + 1) ELSE 0

DigitChar(d) ==
    CASE d = 0 -> "0" [] d = 1 -> "1" [] d = 2 -> "2" [] d = 3 -> "3"
      [] d = 4 -> "4" [] d = 5 -> "5" [] d = 6 -> "6" [] d = 7 -> "7"
      [] d = 8 -> "8" [] d = 9 -> "9"

RECURSIVE NumberToString(_)
NumberToString(n) ==
    IF n < 10 THEN <<DigitChar(n)>>
    ELSE NumberToString(n \div 10) \o <<DigitChar(n % 10)>>

(***************************************************************************)
(* SHOWS: the two kinds of entries, one with a tvdb_id and one without.    *)
(***************************************************************************)
ShowKeys == {"californias-gold", "downtown"}

SHOWS ==
    [k \in ShowKeys |->
        IF k = "californias-gold"
        THEN [key |-> Key_californias_gold, name |-> Name_CaliforniasGold,
              tvdb_id |-> <<279999>>]
        ELSE [key |-> Key_downtown, name |-> Name_Downtown, tvdb_id |-> <<>>]]

(***************************************************************************)
(* The catalog snapshot tvdb.getEpisodesBySeriesId answers with, and the   *)
(* answers of the catalog service and of FuzzySet.get to one renameEpisode *)
(* call: env = [tvdb, fuzzy].  Scores are in units of 1/10000.             *)
(***************************************************************************)
Episode(name, season, number) ==
    [episodeName |-> name, airedSeason |-> season, airedEpisodeNumber |-> number]

Catalog ==
    << Episode(<<>>, 0, 1),
       Episode(Ep_OldTown, 1, 3),
       Episode(Ep_OldFaithful, 2, 12),
       Episode(Ep_Bodie, 10, 5) >>

TvdbAnswers == {[status |-> "ok", episodes |-> Catalog],
                [status |-> "fail", episodes |-> <<>>]}

Scores == {3300, 6999, 7000, 10000}

FuzzyAnswers(names) ==
    {<<>>} \cup {<< <<sc, names[i]>> >> : sc \in Scores, i \in 1..Len(names)}

(***************************************************************************)
(* getTVDBEpisodes and episodePadding.                                     *)
(***************************************************************************)
getTVDBEpisodesFirstOnly(seasonId, tvdb, answer) ==
    IF seasonId \in DOMAIN tvdb
    THEN [ok |-> TRUE, episodes |-> SubSeq(tvdb[seasonId], 1, 1), tvdb |-> tvdb]
    ELSE IF answer.status # "ok"
         THEN [ok |-> FALSE, episodes |-> <<>>, tvdb |-> tvdb]
         ELSE [ok |-> TRUE, episodes |-> answer.episodes,
               tvdb |-> Put(tvdb, seasonId, answer.episodes)]

getTVDBEpisodes(seasonId, tvdb, answer) ==
    IF seasonId \in DOMAIN tvdb
    THEN [ok |-> TRUE, episodes |-> tvdb[seasonId], tvdb |-> tvdb]
    ELSE IF answer.status # "ok"
         THEN [ok |-> FALSE, episodes |-> <<>>, tvdb |-> tvdb]
         ELSE [ok |-> TRUE, episodes |-> answer.episodes,
               tvdb |-> Put(tvdb, seasonId, answer.episodes)]

episodePaddingNone(number) == NumberToString(number)

episodePadding(number) ==
    IF number < 10 THEN <<"0">> \o NumberToString(number)
    ELSE NumberToString(number)

(***************************************************************************)
(* The show-name pattern of renameEpisode,                                 *)
(*   " ?[-(ndash)(mdash)] ?" + showName + "( \(\d+\))?",                   *)
(* matched at position i: the length of the match, 0 when there is none.   *)
(***************************************************************************)
Dashes == {"-", "ndash", "mdash"}

ShowNameMatch(s, i, showName) ==
    LET a == IF i <= Len(s) /\ s[i] = " " THEN 1 ELSE 0
        d == i + a
        b == IF d + 1 <= Len(s) /\ s[d + 1] = " " THEN 1 ELSE 0
        n == d + 1 + b
        e == n + Len(showName)
        run == DigitRun(s, e + 2)
        group == IF /\ e + 1 <= Len(s)
                    /\ s[e] = " "
                    /\ s[e + 1] = "("
                    /\ run > 0
                    /\ e + 2 + run <= Len(s)
                    /\ s[e + 2 + run] = ")"
                 THEN 3 + run ELSE 0
    IN  IF /\ d <= Len(s)
           /\ s[d] \in Dashes
           /\ e - 1 <= Len(s)
           /\ SubSeq(s, n, e - 1) = showName
        THEN (e - i) + group
        ELSE 0

RemoveShowName(s, showName) ==
    LET starts == {i \in 1..Len(s) : ShowNameMatch(s, i, showName) > 0}
    IN  IF starts = {} THEN s
        ELSE LET i == CHOOSE x \in starts : \A y \in starts : x <= y
                 n == ShowNameMatch(s, i, showName)
             IN  SubSeq(s, 1, i - 1) \o SubSeq(s, i + n, Len(s))

(***************************************************************************)
(* sanitize (sanitize-filename): illegal characters are removed and        *)
(* trailing periods and spaces are stripped.                               *)
(***************************************************************************)
Illegal == {"/", "?", "<", ">", "\\", ":", "*", "|", "\""}

StripTrailing(s) ==
    SubSeq(s, 1, Max({0} \cup {i \in 1..Len(s) : s[i] \notin {".", " "}}))

sanitize(s) == StripTrailing(SelectSeq(s, LAMBDA c : c \notin Illegal))

(***************************************************************************)
(* renameEpisode.  tvdb is CACHE.tvdb, memo is SHOWS[show].fuzzyset.  The  *)
(* result carries the file name, the new CACHE.tvdb and memo, the episode  *)
(* selected (<<>> when none) and the console lines.                        *)
(***************************************************************************)
Find(episodes, Test(_)) ==
    LET hits == {i \in 1..Len(episodes) : Test(episodes[i])}
    IN  IF hits = {} THEN <<>>
        ELSE <<episodes[CHOOSE i \in hits : \A j \in hits : i <= j]>>

LowConfidenceInclusive(score) == score <= 7000

LowConfidence(score) == score < 7000

SelectEpisode(episodes, episodeName, fuzzyMatch) ==
    IF fuzzyMatch = <<>>
    THEN [match |-> <<>>, log |-> <<"Couldn't find a matching episode">>]
    ELSE LET firstMatch == fuzzyMatch[1]
             low == LowConfidence(firstMatch[1])
             match == IF low
                      THEN Find(episodes,
                                LAMBDA e : StartsWith(e.episodeName, episodeName))
                      ELSE Find(episodes, LAMBDA e : e.episodeName = firstMatch[2])
         IN  [match |-> match,
              log |-> (IF low THEN <<"Low confidence">> ELSE <<>>)
                      \o (IF match # <<>> THEN <<"Matched">>
                          ELSE <<"Couldn't find a matching episode">>)]

EpisodeQuery(title, showKey) ==
    RemoveShowName(ReplaceAll(title, "rsquo", <<"'">>), SHOWS[showKey].name)

FileName(showKey, episodeNumber, episodeName) ==
    Str_videos \o SHOWS[showKey].key \o Str_slash
    \o sanitize(ReplaceAll(ReplaceAll(SHOWS[showKey].name, " ", <<".">>), "'", <<>>)
                \o episodeNumber
                \o ReplaceAll(ReplaceAll(ReplaceAll(episodeName, " ", <<".">>),
                                         "'", <<>>), "&", Str_and))
    \o Str_mp4

EpisodeNumber(match) ==
    <<".", "S">> \o episodePadding(match.airedSeason)
    \o <<"E">> \o episodePadding(match.airedEpisodeNumber) \o <<".">>

RenameSelected(page, tvdb, memo, episodeName, sel) ==
    [ok |-> TRUE, err |-> "",
     renamed |-> IF sel.match # <<>>
                 THEN <<FileName(page.show[1], EpisodeNumber(sel.match[1]),
                                 sel.match[1].episodeName)>>
                 ELSE <<FileName(page.show[1], <<".">>, episodeName)>>,
     tvdb |-> tvdb, memo |-> memo, match |-> sel.match, log |-> sel.log]

RenameFetched(page, tvdb, memo, env, episodeName, fetch, episodes) ==
    IF ~fetch.ok
    THEN [ok |-> FALSE, err |-> "CatalogError", renamed |-> <<>>,
          tvdb |-> tvdb, memo |-> memo, match |-> <<>>, log |-> <<>>]
    ELSE RenameSelected(page, fetch.tvdb,
                        IF memo = <<>>
                        THEN <<[i \in 1..Len(episodes) |-> episodes[i].episodeName]>>
                        ELSE memo,
                        episodeName,
                        SelectEpisode(episodes, episodeName, env.fuzzy))

RenameWithCatalog(page, tvdb, memo, env, episodeName, fetch) ==
    RenameFetched(page, tvdb, memo, env, episodeName, fetch,
                  SelectSeq(fetch.episodes, LAMBDA e : e.episodeName # <<>>))

renameEpisode(page, tvdb, memo, env) ==
    IF SHOWS[page.show[1]].tvdb_id # <<>>
    THEN RenameWithCatalog(page, tvdb, memo, env,
                           EpisodeQuery(page.title, page.show[1]),
                           getTVDBEpisodes(SHOWS[page.show[1]].tvdb_id[1], tvdb,
                                           env.tvdb))
    ELSE RenameSelected(page, tvdb, memo, EpisodeQuery(page.title, page.show[1]),
                        [match |-> <<>>, log |-> <<>>])

(***************************************************************************)
(* String.prototype.localeCompare: the primary weights (letters without    *)
(* their case) decide first; between strings equal at that level the       *)
(* first case difference decides, lower case first.                        *)
(***************************************************************************)
\* "Page not found"
Str_PageNotFound ==
    <<"P", "a", "g", "e", " ", "n", "o", "t", " ", "f", "o", "u", "n", "d">>

\* "Page not found (ndash) Huell Howser Archives"
FeedTitle_NotFound ==
    <<"P", "a", "g", "e", " ", "n", "o", "t", " ", "f", "o", "u", "n", "d",
      " ", "ndash", " ", "H", "u", "e", "l", "l", " ", "H", "o", "w", "s",
      "e", "r", " ", "A", "r", "c", "h", "i", "v", "e", "s">>

\* "Downtown (ndash) Huell Howser Archives"
FeedTitle_Category ==
    <<"D", "o", "w", "n", "t", "o", "w", "n", " ", "ndash", " ", "H", "u",
      "e", "l", "l", " ", "H", "o", "w", "s", "e", "r", " ", "A", "r", "c",
      "h", "i", "v", "e", "s">>

\* "a..z"
LowerCase ==
    <<"a", "b", "c", "d", "e", "f", "g", "h", "i", "j", "k", "l", "m", "n",
      "o", "p", "q", "r", "s", "t", "u", "v", "w", "x", "y", "z">>

\* "A..Z"
UpperCase ==
    <<"A", "B", "C", "D", "E", "F", "G", "H", "I", "J", "K", "L", "M", "N",
      "O", "P", "Q", "R", "S", "T", "U", "V", "W", "X", "Y", "Z">>

\* "space, punctuation and digits in collation order"
BeforeLetters ==
    <<" ", "-", "ndash", "mdash", ".", "'", "rsquo", "(", ")", "/", "&", "0",
      "1", "2", "3", "4", "5", "6", "7", "8", "9">>

IndexOf(s, c) == CHOOSE i \in 1..Len(s) : s[i] = c

IsUpper(c) == \E i \in 1..Len(UpperCase) : UpperCase[i] = c

IsLower(c) == \E i \in 1..Len(LowerCase) : LowerCase[i] = c

Characters ==
    {BeforeLetters[i] : i \in 1..Len(BeforeLetters)}
    \cup {LowerCase[i] : i \in 1..Len(LowerCase)}
    \cup {UpperCase[i] : i \in 1..Len(UpperCase)}

PrimaryWeight ==
    [c \in Characters |->
        IF IsUpper(c) THEN Len(BeforeLetters) + IndexOf(UpperCase, c)
        ELSE IF IsLower(c) THEN Len(BeforeLetters) + IndexOf(LowerCase, c)
        ELSE IndexOf(BeforeLetters, c)]

TertiaryWeight == [c \in Characters |-> IF IsUpper(c) THEN 1 ELSE 0]

Weight(c, level) == IF level = 3 THEN TertiaryWeight[c] ELSE PrimaryWeight[c]

Sign(n) == IF n < 0 THEN -1 ELSE IF n > 0 THEN 1 ELSE 0

RECURSIVE FirstDifference(_, _, _, _)
FirstDifference(a, b, level, i) ==
    IF i > Len(a) \/ i > Len(b) THEN 0
    ELSE IF Weight(a[i], level) # Weight(b[i], level) THEN i
    ELSE FirstDifference(a, b, level, i + 1)

CompareAt(a, b, level, i) ==
    IF i = 0 THEN Sign(Len(a) - Len(b))
    ELSE Sign(Weight(a[i], level) - Weight(b[i], level))

CompareKeys(a, b, level) == CompareAt(a, b, level, FirstDifference(a, b, level, 1))

localeCompare(a, b) ==
    IF CompareKeys(a, b, 1) # 0 THEN CompareKeys(a, b, 1) ELSE CompareKeys(a, b, 3)

(***************************************************************************)
(* videos.sort((a, b) => a.renamed.localeCompare(b.renamed)): a stable     *)
(* insertion sort of page objects.                                         *)
(***************************************************************************)
RECURSIVE Insert(_, _)
Insert(sorted, x) ==
    IF sorted = <<>> THEN <<x>>
    ELSE IF localeCompare(x.renamed[1], sorted[Len(sorted)].renamed[1]) < 0
         THEN Append(Insert(SubSeq(sorted, 1, Len(sorted) - 1), x),
                     sorted[Len(sorted)])
         ELSE Append(sorted, x)

RECURSIVE SortByRenamed(_)
SortByRenamed(s) ==
    IF s = <<>> THEN <<>>
    ELSE Insert(SortByRenamed(SubSeq(s, 1, Len(s) - 1)), s[Len(s)])

(***************************************************************************)
(* path.basename.                                                          *)
(***************************************************************************)
basename(path) ==
    SubSeq(path, Max({0} \cup {i \in 1..Len(path) : path[i] = "/"}) + 1, Len(path))

(***************************************************************************)
(* The site the crawl runs against: three post pages.                      *)
(*   u1  an iframe page with an HD and an SD source and a subtitle track   *)
(*   u2  a player-script page whose playlist has a 480 and an hls source   *)
(*   u3  an iframe page with an HD source only                             *)
(* Any request of a page may also fail.                                    *)
(***************************************************************************)
URLs == {"u1", "u2", "u3"}

PageDoc(title, iframes, scripts) ==
    [status |-> "ok", title |-> title, iframes |-> iframes, scripts |-> scripts]

IframeDoc(sources, tracks) ==
    [status |-> "ok", sources |-> sources, tracks |-> tracks]

JWDoc(sources) ==
    [status |-> "ok",
     config |-> <<[playlist |-> <<[falsy |-> FALSE,
                                   entries |-> <<[sources |-> sources]>>]>>]>>]

NoIframeDoc == IframeDoc(<<>>, <<>>)

NoJWDoc == [status |-> "ok", config |-> <<>>]

ProbeOk == [status |-> "ok", header |-> << <<"7">> >>]

Site(url) ==
    CASE url = "u1" ->
           [page |-> PageDoc(Title_OldFaithful, 1, 0),
            iframe |-> IframeDoc(<<[src |-> "https://vhost/hd.mp4", label |-> "HD"],
                                   [src |-> "https://vhost/sd.mp4", label |-> "SD"]>>,
                                 <<"https://vhost/subs.vtt">>),
            jw |-> NoJWDoc, probe |-> ProbeOk]
      [] url = "u2" ->
           [page |-> PageDoc(Title_Bodie, 0, 1),
            iframe |-> NoIframeDoc,
            jw |-> JWDoc(<<[type |-> "mp4", width |-> 480, file |-> "//cdn/sd.mp4"],
                           [type |-> "hls", width |-> 0, file |-> "//cdn/v.m3u8"]>>),
            probe |-> ProbeOk]
      [] OTHER ->
           [page |-> PageDoc(Title_Old, 1, 0),
            iframe |-> IframeDoc(<<[src |-> "https://vhost/hd3.mp4", label |-> "HD"]>>,
                                 <<>>),
            jw |-> NoJWDoc, probe |-> ProbeOk]

SiteAnswers(url) == {Site(url), [Site(url) EXCEPT !.page.status = "fail"]}

(***************************************************************************)
(* FuzzySet(episodeNames).get(query) for the catalog snapshot: a function  *)
(* of the query.                                                           *)
(***************************************************************************)
FuzzySetGet(query) ==
    IF query = Ep_OldFaithful THEN << <<10000, Ep_OldFaithful>> >>
    ELSE IF query = <<"O", "l", "d">> THEN << <<6999, Ep_OldFaithful>> >>
    ELSE IF query = Title_Bodie THEN << <<7000, Ep_Bodie>> >>
    ELSE <<>>

(***************************************************************************)
(* getFeedPageLinks: the answer of the feed is the sequence of events the  *)
(* parser emits; the promise is settled by the first reject or resolve.    *)
(***************************************************************************)
ErrorEvent == [type |-> "error", title |-> <<>>, link |-> ""]

MetaEvent(title) == [type |-> "meta", title |-> title, link |-> ""]

ItemEvent(link) == [type |-> "item", title |-> <<>>, link |-> link]

EndEvent == [type |-> "end", title |-> <<>>, link |-> ""]

FeedTitles == {FeedTitle_NotFound, FeedTitle_Category}

\* The link lists of the feed pages: none, one post, two posts.
FeedLinkLists == {<<>>, <<"u1">>, <<"u2", "u1">>, <<"u1", "u3">>}

FeedAnswers ==
    {<<ErrorEvent>>} \cup
    {<<MetaEvent(t)>> \o [i \in 1..Len(ls) |-> ItemEvent(ls[i])] \o <<EndEvent>> :
        t \in FeedTitles, ls \in FeedLinkLists}

Pending == [settled |-> FALSE, ok |-> FALSE, err |-> "", links |-> <<>>]

OnFeedEventIgnoresTitle(p, ev) ==
    IF ev.type = "error"
    THEN IF p.settled THEN p ELSE [p EXCEPT !.settled = TRUE, !.err = "FeedError"]
    ELSE IF ev.type = "meta" THEN p
    ELSE IF ev.type = "item"
    THEN [p EXCEPT !.links = Append(@, ev.link)]
    ELSE IF p.settled THEN p ELSE [p EXCEPT !.settled = TRUE, !.ok = TRUE]

OnFeedEvent(p, ev) ==
    IF ev.type = "error"
    THEN IF p.settled THEN p ELSE [p EXCEPT !.settled = TRUE, !.err = "FeedError"]
    ELSE IF ev.type = "meta"
    THEN IF StartsWith(ev.title, Str_PageNotFound) /\ ~p.settled
         THEN [p EXCEPT !.settled = TRUE, !.err = "Page not found"]
         ELSE p
    ELSE IF ev.type = "item"
    THEN [p EXCEPT !.links = Append(@, ev.link)]
    ELSE IF p.settled THEN p ELSE [p EXCEPT !.settled = TRUE, !.ok = TRUE]

RECURSIVE FeedEvents(_, _)
FeedEvents(p, events) ==
    IF events = <<>> THEN p
    ELSE FeedEvents(OnFeedEvent(p, Head(events)), Tail(events))

getFeedPageLinks(answer) == FeedEvents(Pending, answer)

\* What the feed sent, for the history variables.
SaysNotFound(answer) ==
    \E i \in 1..Len(answer) :
        answer[i].type = "meta" /\ StartsWith(answer[i].title, Str_PageNotFound)

ItemCount(answer) == Len(SelectSeq(answer, LAMBDA ev : ev.type = "item"))

FeedKind(answer) ==
    IF answer[1].type = "error" THEN "error"
    ELSE IF SaysNotFound(answer) THEN "notfound"
    ELSE IF ItemCount(answer) = 0 THEN "empty"
    ELSE "links"

(***************************************************************************)
(* crawlCategory's loop after getFeedPageLinks has settled with r: the     *)
(* links to process, the page number, where the function continues, and    *)
(* the console.  A rejection leaves the try block.                         *)
(***************************************************************************)
CrawlOnEmptyStops(r, n, con) ==
    IF r.ok /\ r.links # <<>>
    THEN [links |-> r.links, pageNumber |-> n, pc |-> "links", console |-> con]
    ELSE IF r.ok \/ r.err = "Page not found"
    THEN [links |-> <<>>, pageNumber |-> n, pc |-> "flush",
          console |-> [con EXCEPT !.eof = TRUE]]
    ELSE [links |-> <<>>, pageNumber |-> n, pc |-> "flush",
          console |-> [con EXCEPT !.errors = Append(@, r.err)]]

CrawlOnFeed(r, n, con) ==
    IF r.ok
    THEN [links |-> r.links,
          pageNumber |-> IF r.links = <<>> THEN n + 1 ELSE n,
          pc |-> IF r.links = <<>> THEN "feed" ELSE "links",
          console |-> con]
    ELSE [links |-> <<>>, pageNumber |-> n, pc |-> "flush",
          console |-> IF r.err = "Page not found"
                      THEN [con EXCEPT !.eof = TRUE]
                      ELSE [con EXCEPT !.errors = Append(@, r.err)]]

(***************************************************************************)
(* The body of crawlCategory's loop over the links of a feed page, for one *)
(* link: getPageVideos, page.show, renameEpisode, page.renamed, the size,  *)
(* the push.  The page object is the one in CACHE.pages.                   *)
(***************************************************************************)
Quality(page) == IF "HD" \in DOMAIN page.videos THEN "HD" ELSE "SD"

Call(link, r) == [url |-> link, ok |-> r.ok, hit |-> r.hit, requests |-> r.requests]

LinkRenamed(link, cache, memo, r, shown, rn) ==
    IF ~rn.ok
    THEN [ok |-> FALSE, err |-> rn.err,
          cache |-> [pages |-> Put(r.pages, link, shown), tvdb |-> cache.tvdb],
          memo |-> memo, size |-> 0, call |-> Call(link, r)]
    ELSE IF Quality(shown) \notin DOMAIN shown.videos
    THEN [ok |-> FALSE, err |-> "TypeError",
          cache |-> [pages |-> Put(r.pages, link, [shown EXCEPT !.renamed = rn.renamed]),
                     tvdb |-> rn.tvdb],
          memo |-> rn.memo, size |-> 0, call |-> Call(link, r)]
    ELSE [ok |-> TRUE, err |-> "",
          cache |-> [pages |-> Put(r.pages, link, [shown EXCEPT !.renamed = rn.renamed]),
                     tvdb |-> rn.tvdb],
          memo |-> rn.memo, size |-> shown.videos[Quality(shown)].size,
          call |-> Call(link, r)]

LinkShown(link, showName, cache, memo, tvdbAnswer, r, shown) ==
    LinkRenamed(link, cache, memo, r, shown,
                renameEpisode(shown, cache.tvdb, memo,
                              [tvdb |-> tvdbAnswer,
                               fuzzy |-> FuzzySetGet(EpisodeQuery(shown.title,
                                                                  showName))]))

LinkExtracted(link, showName, cache, memo, tvdbAnswer, r) ==
    IF ~r.ok
    THEN [ok |-> FALSE, err |-> r.err, cache |-> cache, memo |-> memo,
          size |-> 0, call |-> Call(link, r)]
    ELSE LinkShown(link, showName, cache, memo, tvdbAnswer, r,
                   [r.page[1] EXCEPT !.show = <<showName>>])

LinkStep(link, showName, cache, memo, net, tvdbAnswer) ==
    LinkExtracted(link, showName, cache, memo, tvdbAnswer,
                  getPageVideos(link, cache.pages, net))

(***************************************************************************)
(* The manifest: 'set -e', then per page of the sorted videos an echo line *)
(* and an ffmpeg (subtitles) or curl command.                              *)
(***************************************************************************)
formatCurlParameters(page) ==
    [cmd |-> "curl", src |-> page.videos[Quality(page)].src, output |-> page.renamed[1]]

PageCommands(page, index, total) ==
    << [cmd |-> "echo", index |-> index, total |-> total,
        name |-> basename(page.renamed[1])],
       IF page.subtitles # <<>>
       THEN [cmd |-> "ffmpeg", src |-> page.videos[Quality(page)].src,
             subtitles |-> page.subtitles[1], output |-> page.renamed[1]]
       ELSE formatCurlParameters(page) >>

RECURSIVE Flatten(_)
Flatten(ss) == IF ss = <<>> THEN <<>> ELSE Head(ss) \o Flatten(Tail(ss))

Unsorted(pages) == pages

SortVideos(pages) == SortByRenamed(pages)

Commands(pages) ==
    LET sorted == SortVideos(pages)
    IN  <<[cmd |-> "set -e"]>> \o
        Flatten([i \in 1..Len(sorted) |-> PageCommands(sorted[i], i, Len(sorted))])

(***************************************************************************)
(* The script.  pc is "start" before the first process start, "feed" when  *)
(* crawlCategory is about to fetch a feed page, "links" inside the loop    *)
(* over the links of a page, "flush" after the try block, "single" in the  *)
(* single-page mode, and "done" when the process has ended.                *)
(***************************************************************************)
EmptyCache == [pages |-> EmptyMap, tvdb |-> EmptyMap]

Quiet == [eof |-> FALSE, errors |-> <<>>, unhandled |-> <<>>, spawned |-> <<>>]

NoCall == [url |-> "", ok |-> FALSE, hit |-> FALSE, requests |-> 0]

JSONStringify(cache) == <<cache>>

JSONParse(contents) == contents[1]

NoFeed == [page |-> 0, kind |-> ""]

\* The values at process start of what a process holds.
Fresh ==
    /\ fuzzyset = <<>>
    /\ pageNumber = 1
    /\ links = <<>>
    /\ videos = <<>>
    /\ totalSize = 0
    /\ console = Quiet
    /\ manifest = <<>>
    /\ fetched = {}
    /\ notFoundAt = {}
    /\ lastFeed = NoFeed
    /\ extracted = {}
    /\ lastCall = NoCall
    /\ flushed = FALSE

Init ==
    /\ pc = "start"
    /\ mode = "show"
    /\ show \in ShowKeys
    /\ CACHE = EmptyCache
    /\ disk = <<>>
    /\ Fresh
    /\ everResolved = {}
    /\ runs = 0
    /\ arg = <<>>
    /\ ret = <<>>

\* Process start: cache.json is read, the arguments are parsed.
Start ==
    /\ pc \in {"start", "done"}
    /\ runs < MaxRuns
    /\ runs' = runs + 1
    /\ CACHE' = IF disk = <<>> THEN EmptyCache ELSE JSONParse(disk)
    /\ \E m \in {"show", "single"} :
          /\ mode' = m
          /\ pc' = IF m = "show" THEN "feed" ELSE "single"
    /\ fuzzyset' = <<>>
    /\ pageNumber' = 1
    /\ links' = <<>>
    /\ videos' = <<>>
    /\ totalSize' = 0
    /\ console' = Quiet
    /\ manifest' = <<>>
    /\ fetched' = {}
    /\ notFoundAt' = {}
    /\ lastFeed' = NoFeed
    /\ extracted' = {}
    /\ lastCall' = NoCall
    /\ flushed' = FALSE
    /\ UNCHANGED <<show, disk, everResolved, arg, ret>>

\* One iteration of the while loop up to the links: the feed page is fetched.
FetchFeed ==
    /\ pc = "feed"
    /\ pageNumber <= MaxPages
    /\ \E answer \in FeedAnswers :
          LET next == CrawlOnFeed(getFeedPageLinks(answer), pageNumber, console) IN
          /\ fetched' = fetched \cup {pageNumber}
          /\ notFoundAt' = IF SaysNotFound(answer)
                           THEN notFoundAt \cup {<<pageNumber, ItemCount(answer) > 0>>}
                           ELSE notFoundAt
          /\ lastFeed' = [page |-> pageNumber, kind |-> FeedKind(answer)]
          /\ links' = next.links
          /\ pageNumber' = next.pageNumber
          /\ pc' = next.pc
          /\ console' = next.console
    /\ UNCHANGED <<mode, show, CACHE, disk, fuzzyset, videos, totalSize, manifest,
                   extracted, lastCall, everResolved, flushed, runs, arg, ret>>

ProcessLinkSkipsFailure ==
    /\ pc = "links"
    /\ \E net \in SiteAnswers(Head(links)), tvdbAnswer \in TvdbAnswers :
          LET r == LinkStep(Head(links), show, CACHE, fuzzyset, net, tvdbAnswer) IN
          /\ CACHE' = r.cache
          /\ fuzzyset' = r.memo
          /\ extracted' = extracted \cup {<<pageNumber, Head(links)>>}
          /\ lastCall' = r.call
          /\ everResolved' = IF r.call.ok THEN everResolved \cup {Head(links)}
                             ELSE everResolved
          /\ IF r.ok
             THEN /\ totalSize' = totalSize + r.size
                  /\ videos' = Append(videos, Head(links))
                  /\ links' = Tail(links)
                  /\ pageNumber' = IF Tail(links) = <<>> THEN pageNumber + 1
                                   ELSE pageNumber
                  /\ pc' = IF Tail(links) = <<>> THEN "feed" ELSE "links"
                  /\ console' = console
             ELSE /\ console' = [console EXCEPT !.errors = Append(@, r.err)]
                  /\ links' = Tail(links)
                  /\ pageNumber' = IF Tail(links) = <<>> THEN pageNumber + 1
                                   ELSE pageNumber
                  /\ pc' = IF Tail(links) = <<>> THEN "feed" ELSE "links"
                  /\ UNCHANGED <<totalSize, videos>>
    /\ UNCHANGED <<mode, show, disk, manifest, fetched, notFoundAt, lastFeed,
                   flushed, runs, arg, ret>>

\* One iteration of the loop over the links of the page.
ProcessLink ==
    /\ pc = "links"
    /\ \E net \in SiteAnswers(Head(links)), tvdbAnswer \in TvdbAnswers :
          LET r == LinkStep(Head(links), show, CACHE, fuzzyset, net, tvdbAnswer) IN
          /\ CACHE' = r.cache
          /\ fuzzyset' = r.memo
          /\ extracted' = extracted \cup {<<pageNumber, Head(links)>>}
          /\ lastCall' = r.call
          /\ everResolved' = IF r.call.ok THEN everResolved \cup {Head(links)}
                             ELSE everResolved
          /\ IF r.ok
             THEN /\ totalSize' = totalSize + r.size
                  /\ videos' = Append(videos, Head(links))
                  /\ links' = Tail(links)
                  /\ pageNumber' = IF Tail(links) = <<>> THEN pageNumber + 1
                                   ELSE pageNumber
                  /\ pc' = IF Tail(links) = <<>> THEN "feed" ELSE "links"
                  /\ console' = console
             ELSE /\ console' = [console EXCEPT !.errors = Append(@, r.err)]
                  /\ pc' = "flush"
                  /\ UNCHANGED <<totalSize, videos, links, pageNumber>>
    /\ UNCHANGED <<mode, show, disk, manifest, fetched, notFoundAt, lastFeed,
                   flushed, runs, arg, ret>>

\* After the try block: cache.json, the sort, the manifest.
FlushNoCacheWrite ==
    /\ pc = "flush"
    /\ manifest' = <<Commands([i \in 1..Len(videos) |-> CACHE.pages[videos[i]]])>>
    /\ pc' = "done"
    /\ UNCHANGED <<mode, show, CACHE, disk, flushed, fuzzyset, pageNumber, links,
                   videos, totalSize, console, fetched, notFoundAt, lastFeed,
                   extracted, lastCall, everResolved, runs, arg, ret>>

Flush ==
    /\ pc = "flush"
    /\ disk' = JSONStringify(CACHE)
    /\ flushed' = TRUE
    /\ manifest' = <<Commands([i \in 1..Len(videos) |-> CACHE.pages[videos[i]]])>>
    /\ pc' = "done"
    /\ UNCHANGED <<mode, show, CACHE, fuzzyset, pageNumber, links, videos, totalSize,
                   console, fetched, notFoundAt, lastFeed, extracted, lastCall,
                   everResolved, runs, arg, ret>>

\* downloadVideos: the curl command spawned for the page (a page without
\* video makes formatCurlParameters throw).
downloadVideos(page, con) ==
    IF Quality(page) \in DOMAIN page.videos
    THEN [con EXCEPT !.spawned = <<[cmd |-> "curl",
                                    src |-> page.videos[Quality(page)].src,
                                    output |-> page.renamed]>>]
    ELSE [con EXCEPT !.unhandled = <<"TypeError">>]

\* --single URL: getPageVideos, cache.json, downloadVideos.
Single ==
    /\ pc = "single"
    /\ \E url \in URLs : \E net \in SiteAnswers(url) :
          LET r == getPageVideos(url, CACHE.pages, net) IN
          /\ extracted' = extracted \cup {<<0, url>>}
          /\ lastCall' = Call(url, r)
          /\ everResolved' = IF r.ok THEN everResolved \cup {url} ELSE everResolved
          /\ CACHE' = [CACHE EXCEPT !.pages = r.pages]
          /\ IF r.ok
             THEN /\ disk' = JSONStringify(CACHE')
                  /\ flushed' = TRUE
                  /\ console' = downloadVideos(r.page[1], console)
             ELSE /\ disk' = disk
                  /\ flushed' = flushed
                  /\ console' = [console EXCEPT !.unhandled = <<r.err>>]
    /\ pc' = "done"
    /\ UNCHANGED <<mode, show, fuzzyset, pageNumber, links, videos, totalSize,
                   manifest, fetched, notFoundAt, lastFeed, runs, arg, ret>>

Next == Start \/ FetchFeed \/ ProcessLink \/ Flush \/ Single

Spec == Init /\ [][Next]_vars

(***************************************************************************)
(* getPageVideos on its own: one call, for every answer the post page,     *)
(* the iframe document, the player script and the size probe can give,     *)
(* with the URL cached or not.                                             *)
(***************************************************************************)
Probes == {ProbeOk,
           [status |-> "ok", header |-> <<>>],
           [status |-> "fail", header |-> <<>>]}

IframeSources == [src : {"https://vhost/v.mp4"}, label : {"SD", "HD", "LD"}]

TrackLists == {<<>>, <<"https://vhost/a.vtt">>,
               <<"https://vhost/a.vtt", "https://vhost/b.vtt">>}

IframeDocs ==
    {[status |-> "fail", sources |-> <<>>, tracks |-> <<>>]} \cup
    {IframeDoc(ss, ts) : ss \in SeqsUpTo(IframeSources, MaxIframeSources),
                         ts \in TrackLists}

JWSources == [type : {"mp4", "hls"}, width : {720, 480, 360}, file : {"//cdn/v"}]

JWConfig(playlist) == [status |-> "ok", config |-> <<[playlist |-> playlist]>>]

JWDocs ==
    {[status |-> "fail", config |-> <<>>],
     NoJWDoc,
     JWConfig(<<>>),
     JWConfig(<<[falsy |-> TRUE, entries |-> <<>>]>>),
     JWConfig(<<[falsy |-> FALSE, entries |-> <<>>]>>)} \cup
    {JWDoc(ss) : ss \in SeqsUpTo(JWSources, MaxSources)}

MarkerCounts == 0..2

ExtractNets ==
    {[page |-> [status |-> "fail", title |-> Title_Old, iframes |-> 0, scripts |-> 0],
      iframe |-> NoIframeDoc, jw |-> NoJWDoc, probe |-> ProbeOk]} \cup
    {[page |-> PageDoc(Title_Old, i, j), iframe |-> NoIframeDoc, jw |-> NoJWDoc,
      probe |-> ProbeOk] :
        i \in MarkerCounts \ {1}, j \in MarkerCounts} \cup
    {[page |-> PageDoc(Title_Old, 1, j), iframe |-> d, jw |-> NoJWDoc, probe |-> b] :
        j \in MarkerCounts, d \in IframeDocs, b \in Probes} \cup
    {[page |-> PageDoc(Title_Old, 0, 1), iframe |-> NoIframeDoc, jw |-> d,
      probe |-> b] :
        d \in JWDocs, b \in Probes}

PriorPage == getPageVideosNoCache("u1", EmptyMap, Site("u1")).page[1]

InitExtract ==
    /\ pc = "extract"
    /\ arg \in [url : {"u1"}, net : ExtractNets]
    /\ ret = <<>>
    /\ CACHE \in {EmptyCache,
                  [pages |-> Put(EmptyMap, "u3", PriorPage), tvdb |-> EmptyMap],
                  [pages |-> Put(EmptyMap, "u1", PriorPage), tvdb |-> EmptyMap]}
    /\ mode = "single"
    /\ show = "downtown"
    /\ disk = <<>>
    /\ Fresh
    /\ everResolved = {}
    /\ runs = 1

ExtractCall ==
    /\ pc = "extract"
    /\ ret' = <<getPageVideos(arg.url, CACHE.pages, arg.net)>>
    /\ CACHE' = [CACHE EXCEPT !.pages = ret'[1].pages]
    /\ lastCall' = Call(arg.url, ret'[1])
    /\ pc' = "returned"
    /\ UNCHANGED <<mode, show, disk, fuzzyset, pageNumber, links, videos, totalSize,
                   console, manifest, fetched, notFoundAt, lastFeed, extracted,
                   everResolved, flushed, runs, arg>>

NextExtract == ExtractCall

SpecExtract == InitExtract /\ [][NextExtract]_vars

(***************************************************************************)
(* renameEpisode on its own: one call, for every page title and show of    *)
(* the model, every answer of the catalog service and of the fuzzy set,    *)
(* with the catalog cached or not.                                         *)
(***************************************************************************)
PageTitles == {Title_OldFaithful, Title_Old, Title_Bodie, Title_Downtown}

NamedEpisodes == SelectSeq(Catalog, LAMBDA e : e.episodeName # <<>>)

EpisodeNames == [i \in 1..Len(NamedEpisodes) |-> NamedEpisodes[i].episodeName]

RenamePages ==
    {[NewPage(t, "u1", IframeSrc) EXCEPT !.show = <<k>>] :
        t \in PageTitles, k \in ShowKeys}

InitRename ==
    /\ pc = "rename"
    /\ arg \in [page : RenamePages,
                env : [tvdb : TvdbAnswers, fuzzy : FuzzyAnswers(EpisodeNames)]]
    /\ ret = <<>>
    /\ \E cached \in BOOLEAN :
          /\ CACHE = [pages |-> EmptyMap,
                      tvdb |-> IF cached
                               THEN Put(EmptyMap, SHOWS["californias-gold"].tvdb_id[1],
                                        Catalog)
                               ELSE EmptyMap]
          /\ fuzzyset \in IF cached THEN {<<>>, <<EpisodeNames>>} ELSE {<<>>}
    /\ mode = "show"
    /\ show = arg.page.show[1]
    /\ disk = <<>>
    /\ pageNumber = 1
    /\ links = <<>>
    /\ videos = <<>>
    /\ totalSize = 0
    /\ console = Quiet
    /\ manifest = <<>>
    /\ fetched = {}
    /\ notFoundAt = {}
    /\ lastFeed = NoFeed
    /\ extracted = {}
    /\ lastCall = NoCall
    /\ flushed = FALSE
    /\ everResolved = {}
    /\ runs = 1

RenameCall ==
    /\ pc = "rename"
    /\ ret' = <<renameEpisode(arg.page, CACHE.tvdb, fuzzyset, arg.env)>>
    /\ CACHE' = [CACHE EXCEPT !.tvdb = ret'[1].tvdb]
    /\ fuzzyset' = ret'[1].memo
    /\ pc' = "returned"
    /\ UNCHANGED <<mode, show, disk, pageNumber, links, videos, totalSize, console,
                   manifest, fetched, notFoundAt, lastFeed, extracted, lastCall,
                   everResolved, flushed, runs, arg>>

NextRename == RenameCall

SpecRename == InitRename /\ [][NextRename]_vars

(***************************************************************************)
(* Properties of the crawl (Spec).                                         *)
(***************************************************************************)

\* C1: when the feed of page n has a title starting with 'Page not found',
\* the loop has ended with the end-of-feed message and no error reported,
\* every getPageVideos call of the run was for a page before n (none of the
\* links of page n was extracted), and no page after n was fetched.
C1_NotFoundEndsCrawl ==
    \A x \in notFoundAt :
        /\ pc \in {"flush", "done"}
        /\ console.eof
        /\ console.errors = <<>>
        /\ \A e \in extracted : e[1] < x[1]
        /\ \A n \in fetched : n <= x[1]
        /\ pageNumber = x[1]

\* A crawl that resolved a page, then met a 'Page not found' feed on page 2
\* that carried links, and has finished.
C1_Witness ==
    /\ pc = "done"
    /\ videos # <<>>
    /\ <<2, TRUE>> \in notFoundAt

\* C10: a feed page with no links and no 'Page not found' title leaves the
\* loop running on the next page number with nothing reported, and a crawl
\* that has left the loop met a 'Page not found' feed or reported an error.
C10_EmptyPageContinues ==
    /\ lastFeed.kind = "empty" =>
          /\ pc = "feed"
          /\ pageNumber = lastFeed.page + 1
          /\ ~console.eof
          /\ console.errors = <<>>
    /\ (mode = "show" /\ pc \in {"flush", "done"}) =>
          notFoundAt # {} \/ console.errors # <<>>

\* Page 1 was empty and page 2 has been fetched and has links to process.
C10_Witness ==
    /\ pc = "links"
    /\ fetched = {1, 2}
    /\ pageNumber = 2
    /\ videos = <<>>

DiskPages == IF disk = <<>> THEN {} ELSE DOMAIN JSONParse(disk).pages

FailedCrawl == pc = "done" /\ mode = "show" /\ console.errors # <<>>

FailedSingle == pc = "done" /\ mode = "single" /\ ~lastCall.ok

\* C6 as stated: a run that ended on a feed or extraction error, in either
\* mode, has written cache.json with every page resolved so far.
C6_Original ==
    (FailedCrawl \/ FailedSingle) =>
        /\ flushed
        /\ disk = JSONStringify(CACHE)
        /\ everResolved \subseteq DiskPages

\* C6: a category crawl that ended on a feed or extraction error has
\* reported it and has written cache.json with the whole cache, every page
\* resolved so far included; a single-page run whose extraction failed ends
\* on the uncaught error without writing cache.json (it resolved nothing,
\* so the file still holds every resolved page).
C6_ErrorStillFlushes ==
    /\ FailedCrawl =>
          /\ flushed
          /\ disk = JSONStringify(CACHE)
          /\ everResolved \subseteq DiskPages
          /\ \A i \in 1..Len(videos) : videos[i] \in DiskPages
    /\ FailedSingle =>
          /\ ~flushed
          /\ console.unhandled # <<>>
          /\ console.errors = <<>>
          /\ everResolved \subseteq DiskPages

\* A crawl that resolved a page and then ended on an error.
C6_Witness ==
    /\ FailedCrawl
    /\ videos # <<>>
    /\ ~console.eof

\* What extraction put into a page (the crawl adds show and renamed).
Extracted(page) == [page EXCEPT !.show = <<>>, !.renamed = <<>>]

\* C4: a getPageVideos call for a URL that an earlier call, of this run or
\* of an earlier one, resolved is answered by the cache with the page that
\* is cached and without any request; a call that is not answered by the
\* cache is for a URL the cache does not hold, makes requests, and when it
\* succeeds its page is stored under the URL.
C4_CacheIdempotent ==
    [][(runs' = runs /\ extracted' # extracted) =>
          LET u == lastCall'.url IN
          /\ u \in everResolved =>
                /\ lastCall'.hit
                /\ lastCall'.ok
                /\ lastCall'.requests = 0
                /\ Extracted(CACHE'.pages[u]) = Extracted(CACHE.pages[u])
          /\ ~lastCall'.hit =>
                /\ u \notin DOMAIN CACHE.pages
                /\ lastCall'.requests > 0
                /\ lastCall'.ok => u \in DOMAIN CACHE'.pages
                /\ lastCall'.ok => u \in everResolved']_vars

\* The first call of a second run is answered by the cache the first run
\* flushed.
C4_Witness ==
    /\ runs = 2
    /\ Len(videos) = 1
    /\ lastCall.hit
    /\ lastCall.requests = 0
    /\ lastCall.url \in everResolved

Downloads == SelectSeq(manifest[1], LAMBDA c : c.cmd \in {"curl", "ffmpeg"})

Renamed(i) == CACHE.pages[videos[i]].renamed[1]

Extracting == pc = "returned" /\ ~ret[1].hit /\ arg.net.page.status = "ok"

\* CACHE.pages as it was when the call was made.
PagesBefore ==
    [u \in DOMAIN CACHE.pages \ {arg.url} |-> CACHE.pages[u]]

NotCached == ~ret[1].ok /\ arg.url \notin DOMAIN CACHE.pages

C3_Original ==
    pc = "returned" =>
        /\ ret[1].ok =>
              /\ Cardinality(DOMAIN ret[1].page[1].videos) \in 1..2
              /\ DOMAIN ret[1].page[1].videos \subseteq {"HD", "SD"}
        /\ \A u \in DOMAIN CACHE.pages :
              Cardinality(DOMAIN CACHE.pages[u].videos) \in 1..2

\* The player-script path was taken and the script had a source list.
JWScanned ==
    /\ Extracting
    /\ arg.net.page.iframes = 0
    /\ arg.net.page.scripts = 1
    /\ arg.net.jw.status = "ok"
    /\ arg.net.jw.config # <<>>
    /\ arg.net.jw.config[1].playlist # <<>>
    /\ ~arg.net.jw.config[1].playlist[1].falsy
    /\ arg.net.jw.config[1].playlist[1].entries # <<>>

JWSourceList == arg.net.jw.config[1].playlist[1].entries[1].sources

Reversed == Reverse(JWSourceList)

Is(source, width) == source.type # "hls" /\ source.width = width

\* The positions, in the reversed list, of the non-hls sources of a width.
Positions(width) == {i \in 1..Len(Reversed) : Is(Reversed[i], width)}

First480 == Min(Positions(480))

BothPopulated == ret[1].ok /\ {"HD", "SD"} \subseteq DOMAIN ret[1].page[1].videos

Probed == {ret[1].probed[i] : i \in 1..Len(ret[1].probed)}

\* C7 as stated: when the source list has a non-hls 720 source and a
\* non-hls 480 source, wherever they are, and the size probes succeed, the
\* page has both descriptors, and nothing after the first 480 source of the
\* reversed list is probed.
C7_Original ==
    (/\ JWScanned
     /\ arg.net.probe.status = "ok"
     /\ Positions(720) # {}
     /\ Positions(480) # {})
    => /\ BothPopulated
       /\ \A i \in Probed : i <= First480

\* C7: the scan of the reversed list stops at its first non-hls 480 source:
\* no later position is probed.  When the probes succeed, the page has the
\* SD descriptor, and it has the HD descriptor too exactly when a non-hls
\* 720 source precedes that 480 source in the reversed list (follows the
\* last 480 source in the list as served).
C7_ScanStopsAt480 ==
    (JWScanned /\ Positions(480) # {}) =>
        /\ \A i \in Probed : i <= First480
        /\ arg.net.probe.status = "ok" =>
              /\ ret[1].ok
              /\ First480 \in Probed
              /\ "SD" \in DOMAIN ret[1].page[1].videos
              /\ "HD" \in DOMAIN ret[1].page[1].videos
                    <=> \E i \in Positions(720) : i < First480

\* A list served as other, 480, 720: both descriptors, and the source after
\* the 480 one in the reversed list was not probed.
C7_Witness ==
    /\ JWScanned
    /\ Len(JWSourceList) = 3
    /\ Is(JWSourceList[1], 360)
    /\ Is(JWSourceList[2], 480)
    /\ Is(JWSourceList[3], 720)
    /\ BothPopulated
    /\ Probed = {1, 2}

\* The player-script path was taken and the script held a configuration.
JWConfigured ==
    /\ Extracting
    /\ arg.net.page.iframes = 0
    /\ arg.net.page.scripts = 1
    /\ arg.net.jw.status = "ok"
    /\ arg.net.jw.config # <<>>

\* C11 as stated: a configuration without a playlist field fails with
\* 'No playlist found!', one whose playlist field is an empty list fails
\* with 'Playlist empty!', and in neither case is a page returned or cached.
C11_Original ==
    JWConfigured =>
        LET playlist == arg.net.jw.config[1].playlist IN
        /\ playlist = <<>> =>
              ret[1].err = "No playlist found!" /\ ret[1].page = <<>> /\ NotCached
        /\ (playlist # <<>> /\ ~playlist[1].falsy /\ playlist[1].entries = <<>>) =>
              ret[1].err = "Playlist empty!" /\ ret[1].page = <<>> /\ NotCached

(***************************************************************************)
(* Properties of renameEpisode (SpecRename).                               *)
(***************************************************************************)
\* C5 as stated: renameEpisode returns a file name for every show and
\* title, whatever the catalog service answers.
C5_Original ==
    pc = "returned" => ret[1].ok /\ ret[1].renamed # <<>>

HasCatalog == SHOWS[arg.page.show[1]].tvdb_id # <<>>

Query == EpisodeQuery(arg.page.title, arg.page.show[1])

PrefixEpisodes ==
    {i \in 1..Len(NamedEpisodes) : StartsWith(NamedEpisodes[i].episodeName, Query)}

\* C9: with a catalog and a top candidate of score s, renameEpisode that
\* returns has, for s >= 0.7, selected the catalog episode of the
\* candidate's name without the low-confidence message, and has, for
\* s < 0.7, logged low confidence and selected the first catalog episode
\* that the stripped title is a prefix of, or none when there is none.
C9_ThresholdBoundary ==
    (pc = "returned" /\ ret[1].ok /\ HasCatalog /\ arg.env.fuzzy # <<>>) =>
        LET s == arg.env.fuzzy[1][1]
            name == arg.env.fuzzy[1][2]
            log == {ret[1].log[i] : i \in 1..Len(ret[1].log)}
        IN  IF s >= 7000
            THEN /\ "Low confidence" \notin log
                 /\ ret[1].match # <<>>
                 /\ ret[1].match[1].episodeName = name
                 /\ ret[1].renamed =
                        <<FileName(arg.page.show[1], EpisodeNumber(ret[1].match[1]),
                                   name)>>
            ELSE /\ "Low confidence" \in log
                 /\ IF PrefixEpisodes = {}
                    THEN /\ ret[1].match = <<>>
                         /\ ret[1].renamed = <<FileName(arg.page.show[1], <<".">>, Query)>>
                    ELSE ret[1].match = <<NamedEpisodes[Min(PrefixEpisodes)]>>

\* A candidate of score exactly 0.7 whose name the title is not a prefix
\* of was selected although another episode has the title as a prefix.
C9_Witness ==
    /\ pc = "returned"
    /\ HasCatalog
    /\ arg.env.fuzzy = << <<7000, Ep_Bodie>> >>
    /\ PrefixEpisodes # {}
    /\ ret[1].ok
    /\ ret[1].match # <<>>
    /\ ret[1].match[1].episodeName = Ep_Bodie
    /\ ~StartsWith(Ep_Bodie, Query)

\* A number below 100 written with two digits.
TwoDigits(n) == <<DigitChar(n \div 10), DigitChar(n % 10)>>

PaddedToken(episode) ==
    <<".", "S">> \o TwoDigits(episode.airedSeason)
    \o <<"E">> \o TwoDigits(episode.airedEpisodeNumber) \o <<".">>

\* C12: the file name renameEpisode returns carries the two-digit token
\* S{season}E{episode} and the catalog name when a catalog episode was
\* selected, and the '.' placeholder and the stripped title otherwise; for
\* a show without a catalog identifier no episode is selected, the call
\* does not depend on the catalog service, and CACHE.tvdb and the fuzzy
\* index are left as they were.
C12_EpisodeToken ==
    /\ [](pc = "returned" /\ ret[1].ok =>
            /\ ret[1].renamed =
                  IF ret[1].match # <<>>
                  THEN <<FileName(arg.page.show[1], PaddedToken(ret[1].match[1]),
                                  ret[1].match[1].episodeName)>>
                  ELSE <<FileName(arg.page.show[1], <<".">>, Query)>>
            /\ ~HasCatalog => ret[1].match = <<>>)
    /\ [][(pc = "rename" /\ ~HasCatalog) =>
            /\ ret'[1].ok
            /\ CACHE' = CACHE
            /\ fuzzyset' = fuzzyset]_vars

\* Season 2 episode 12 was selected: the name carries S02E12.
C12_Witness ==
    /\ pc = "returned"
    /\ ret[1].ok
    /\ ret[1].match # <<>>
    /\ ret[1].match[1].airedSeason = 2
    /\ ret[1].match[1].airedEpisodeNumber = 12
    /\ ret[1].renamed =
          <<FileName(arg.page.show[1],
                     <<".", "S", "0", "2", "E", "1", "2", ".">>, Ep_OldFaithful)>>

(***************************************************************************)
(* Properties of the crawl (Spec), continued.                              *)
(***************************************************************************)
\* The file name of a page from a cold start: nothing cached, no fuzzy
\* index built, the catalog service answering with the snapshot.
ColdName(page) ==
    renameEpisode(page, EmptyMap, <<>>,
                  [tvdb |-> [status |-> "ok", episodes |-> Catalog],
                   fuzzy |-> FuzzySetGet(EpisodeQuery(page.title, page.show[1]))]
                 ).renamed

\* C13: every file name a crawl has given a page, in whatever order the
\* pages were resolved, in a first or a later run, with the catalog list
\* fetched or cached and the fuzzy index built or reused, is the name a
\* cold start gives that show and title.
C13_NameDependsOnShowAndTitle ==
    \A u \in DOMAIN CACHE.pages :
        CACHE.pages[u].renamed # <<>> =>
            CACHE.pages[u].renamed = ColdName(CACHE.pages[u])

\* A second run names u1 first, from the catalog list on disk and a new
\* fuzzy index; the first run named it after u2, with both in memory.
C13_Witness ==
    /\ runs = 2
    /\ show = "californias-gold"
    /\ videos = <<"u1">>
    /\ fuzzyset # <<>>
    /\ DiskPages = {"u1", "u2"}
    /\ JSONParse(disk).pages["u1"].renamed # <<>>
    /\ CACHE.pages["u1"].renamed = JSONParse(disk).pages["u1"].renamed

\* The crawl met an error while processing a link.
LinkFailed == mode = "show" /\ console.errors # <<>> /\ lastFeed.kind = "links"

\* C14: a link whose extraction or renaming fails ends the loop: the
\* accumulated pages and the links left stay as they were (the failing link
\* first among the links left, not among the pages), no feed page beyond
\* the current one is fetched and no further link is extracted, and the
\* manifest is then written with one command per accumulated page and no
\* other; a link that succeeds is appended to the accumulated pages.
C14_AbortOnFirstFailure ==
    /\ [](LinkFailed =>
            /\ pc \in {"flush", "done"}
            /\ links # <<>>
            /\ Head(links) = lastCall.url
            /\ <<pageNumber, Head(links)>> \in extracted
            /\ Cardinality(extracted) = Len(videos) + 1
            /\ fetched = 1..pageNumber
            /\ pc = "done" =>
                  /\ manifest # <<>>
                  /\ Len(Downloads) = Len(videos)
                  /\ \A i \in 1..Len(videos) :
                        Cardinality({j \in 1..Len(Downloads) :
                                        Downloads[j].output = Renamed(i)})
                            = Cardinality({j \in 1..Len(videos) :
                                              Renamed(j) = Renamed(i)}))
    /\ [][/\ pc = "links" =>
                IF console'.errors # console.errors
                THEN /\ pc' = "flush"
                     /\ videos' = videos
                     /\ links' = links
                     /\ fetched' = fetched
                ELSE videos' = Append(videos, Head(links))
          /\ pc = "flush" =>
                /\ pc' = "done"
                /\ manifest' # <<>>
                /\ videos' = videos
                /\ extracted' = extracted
                /\ fetched' = fetched]_vars

\* The second link of a feed page failed after the first was accumulated;
\* the manifest is written for the first.
C14_Witness ==
    /\ pc = "done"
    /\ LinkFailed
    /\ videos = <<"u2">>
    /\ links = <<"u1">>
    /\ Len(Downloads) = 1

====
